---------------------------- MODULE Spec2Model ----------------------------
(***************************************************************************)
(* usb3_pipe/lfps.py : USB3 Low-Frequency Periodic Signaling.              *)
(*                                                                         *)
(*   LFPSReceiver    - MultiReg resynchronisation of the raw idle input    *)
(*                     and the TBURST/TREPEAT detection FSM.               *)
(*   LFPSTransmitter - oscillator (clk_timer, clk) and the burst/repeat    *)
(*                     WaitTimers that gate the Polling LFPS.              *)
(*                                                                         *)
(* One step of the model is one rising edge of the sys clock.  A state     *)
(* holds the registers; combinatorial outputs (polling, idle, pattern,     *)
(* done) are operators over the registers.  Signals are 0/1 integers.      *)
(*                                                                         *)
(* Units: frequencies are integers in units of 100 kHz, durations are      *)
(* integers in units of 10 ns, so that  cycles = t * clk_freq / 1000.      *)
(***************************************************************************)
EXTENDS Integers, Sequences, FiniteSets, TLC

\* ------------------------------------------------------------------------
\* Constants/Helpers
\* ------------------------------------------------------------------------

\* 1/100e-9 Hz = 10 MHz and 1/20e-9 Hz = 50 MHz (both exact in binary64)
lfps_clk_freq_min == 100
lfps_clk_freq_max == 500

\* LFPSTiming(t_typ, t_min, t_max), in units of 10 ns
PollingLFPSBurst  == [t_typ |-> 100,  t_min |-> 60,  t_max |-> 140]
PollingLFPSRepeat == [t_typ |-> 1000, t_min |-> 600, t_max |-> 1400]
PollingLFPS       == [burst |-> PollingLFPSBurst, repeat |-> PollingLFPSRepeat]

\* t_typ=None
None == 0 - 1

PingLFPSBurst     == [t_typ |-> None,     t_min |-> 4,        t_max |-> 20]
PingLFPSRepeat    == [t_typ |-> 20000000, t_min |-> 16000000, t_max |-> 24000000]
ResetLFPSBurst    == [t_typ |-> 10000000, t_min |-> 8000000,  t_max |-> 12000000]
U1ExitLFPSBurst   == [t_typ |-> None,     t_min |-> 30,       t_max |-> 90]
U2LFPSBurst       == [t_typ |-> None,     t_min |-> 8000000,  t_max |-> 200000]
U3WakeupLFPSBurst == [t_typ |-> None,     t_min |-> 8000000,  t_max |-> 1000000]

\* the LFPSTiming(...) statements of the module, in source order
LFPSDefinitions ==
    << PollingLFPSBurst, PollingLFPSRepeat, PingLFPSBurst, PingLFPSRepeat,
       ResetLFPSBurst, U1ExitLFPSBurst, U2LFPSBurst, U3WakeupLFPSBurst >>

\* LFPSTiming.__init__: t_min and t_max must be given
LFPSTiming_ok(tm) == tm.t_min # None /\ tm.t_max # None

\* math.ceil of the rational a/b, a >= 0, b > 0
CeilDiv(a, b) == (a + b - 1) \div b

RECURSIVE Pow2Floor(_)
\* largest power of two <= n, n >= 1
Pow2Floor(n) == IF n < 2 THEN 1 ELSE 2 * Pow2Floor(n \div 2)

\* Relative error of the binary64 literal of a duration, in units of
\* 2^-53 / 10000:  float(1.0e-6)  = 1e-6 * (1 - 0.4076 * 2^-53),
\*                 float(10.0e-6) = 1e-5 * (1 + 0.7368 * 2^-53).
LiteralError(t) == IF t = 1000 THEN 7368 ELSE IF t = 100 THEN 0 - 4076 ELSE 0

\* The binary64 product t*clk_freq, when the exact product is the integer n,
\* is rounded to the next double above n iff n*err exceeds half an ulp of n.
RoundsAbove(n, t) == n >= 1 /\ n * LiteralError(t) > 10000 * Pow2Floor(n)

\* ns_to_cycles(clk_freq, t) = ceil(t*clk_freq), evaluated in binary64
ns_to_cycles(clk_freq, t) ==
    IF (t * clk_freq) % 1000 = 0 /\ RoundsAbove((t * clk_freq) \div 1000, t)
    THEN (t * clk_freq) \div 1000 + 1
    ELSE CeilDiv(t * clk_freq, 1000)

RECURSIVE bits_for(_)
\* migen bits_for(n), n >= 0: width of an unsigned Signal holding n
bits_for(n) == IF n < 2 THEN 1 ELSE 1 + bits_for(n \div 2)

RECURSIVE Pow2(_)
Pow2(w) == IF w = 0 THEN 1 ELSE 2 * Pow2(w - 1)

Max2(a, b) == IF a >= b THEN a ELSE b
Min2(a, b) == IF a <= b THEN a ELSE b

\* ------------------------------------------------------------------------
\* LFPS Receiver
\* ------------------------------------------------------------------------

burst_cycles(f)  == ns_to_cycles(f, PollingLFPS.burst.t_typ)
repeat_cycles(f) == ns_to_cycles(f, PollingLFPS.repeat.t_typ)

\* count = Signal(max=max(burst_cycles, repeat_cycles))
count_bits(f) == bits_for(Max2(burst_cycles(f), repeat_cycles(f)) - 1)

\* count - 1 assigned to the count Signal (truncated to its width)
count_dec(f, c) == (c + Pow2(count_bits(f)) - 1) % Pow2(count_bits(f))

\* a resynchronisation of one register only
MultiRegNext_one_stage(regs, i) == <<i, i>>

\* MultiReg(self.idle, idle): two registers, idle is the second one
MultiRegNext(regs, i) == <<i, regs[1]>>
MultiRegOut(regs)     == regs[2]

\* TBURST with the TREPEAT reload one too long (the "- 1" dropped)
TBURST_count_long_gap(f, c, idl) ==
    IF c = 0
    THEN IF idl = 0 THEN burst_cycles(f) - 1
                    ELSE repeat_cycles(f) - burst_cycles(f)
    ELSE count_dec(f, c)

\* TBURST with the burst reload used for TREPEAT as well
TBURST_count_burst_gap(f, c, idl) ==
    IF c = 0 THEN burst_cycles(f) - 1 ELSE count_dec(f, c)

\* fsm.act("TBURST", ...)
TBURST_count(f, c, idl) ==
    IF c = 0
    THEN IF idl = 0 THEN burst_cycles(f) - 1
                    ELSE repeat_cycles(f) - burst_cycles(f) - 1
    ELSE count_dec(f, c)

\* TBURST left as soon as idle is high, whatever the count
TBURST_state_unsampled(c, idl) == IF idl # 0 THEN "TREPEAT" ELSE "TBURST"

TBURST_state(c, idl) == IF c = 0 /\ idl # 0 THEN "TREPEAT" ELSE "TBURST"

\* TBURST without NextValue(found, 0)
TBURST_found_kept(fnd, idl) == fnd

TBURST_found(fnd, idl) == IF fnd = 1 /\ idl = 0 THEN 0 ELSE fnd

\* polling following found alone
TBURST_polling_no_idle(fnd, idl) == fnd

TBURST_polling(fnd, idl) == IF fnd = 1 /\ idl = 0 THEN 1 ELSE 0

\* TREPEAT left on count == 0 only
TREPEAT_exit_no_idle(c, idl) == c = 0

\* TREPEAT left on idle == 0 only
TREPEAT_exit_no_count(c, idl) == idl = 0

\* fsm.act("TREPEAT", ...)
TREPEAT_exit(c, idl) == c = 0 \/ idl = 0

\* TREPEAT reloading burst_cycles instead of burst_cycles - 1
TREPEAT_count_no_dec(f, c, idl) ==
    IF TREPEAT_exit(c, idl) THEN burst_cycles(f) ELSE count_dec(f, c)

TREPEAT_count(f, c, idl) ==
    IF TREPEAT_exit(c, idl) THEN burst_cycles(f) - 1 ELSE count_dec(f, c)

\* NextValue(found, (count == 0)) outside the If: assigned on every tick
TREPEAT_found_every_tick(fnd, c, idl) == IF c = 0 THEN 1 ELSE 0

\* TREPEAT latching found on every exit, early ones included
TREPEAT_found_any_exit(fnd, c, idl) ==
    IF TREPEAT_exit(c, idl) THEN 1 ELSE fnd

TREPEAT_found(fnd, c, idl) ==
    IF TREPEAT_exit(c, idl) THEN (IF c = 0 THEN 1 ELSE 0) ELSE fnd

TREPEAT_state(c, idl) == IF TREPEAT_exit(c, idl) THEN "TBURST" ELSE "TREPEAT"

\* ------------------------------------------------------------------------
\* LFPS Transmitter
\* ------------------------------------------------------------------------

\* migen.genlib.misc.WaitTimer(t): count resets to t, done = (count == 0),
\* sync: If(wait, If(~done, count.eq(count - 1))).Else(count.eq(count.reset))
WaitTimerDone(c) == IF c = 0 THEN 1 ELSE 0

WaitTimerNext(t, c, wait) ==
    IF wait = 1 THEN (IF WaitTimerDone(c) = 0 THEN c - 1 ELSE c) ELSE t

\* clk_timer without the "- 1"
clk_timer_t_no_dec(sys, lfps) == CeilDiv(sys, 2 * lfps)

\* clk_timer = WaitTimer(ceil(sys_clk_freq/(2*lfps_clk_freq)) - 1)
clk_timer_t(sys, lfps) == CeilDiv(sys, 2 * lfps) - 1

\* clk toggled while the timer is waiting instead of when it is done
clk_next_on_wait(c, done) == IF done = 0 THEN 1 - c ELSE c

\* self.sync += If(clk_timer.done, clk.eq(~clk))
clk_next(c, done) == IF done = 1 THEN 1 - c ELSE c

\* the asserts with strict comparisons
lfps_clk_freq_ok_strict(lfps) ==
    lfps > lfps_clk_freq_min /\ lfps < lfps_clk_freq_max

\* the two asserts of LFPSTransmitter.__init__
lfps_clk_freq_ok(lfps) == lfps >= lfps_clk_freq_min /\ lfps <= lfps_clk_freq_max

\* self.idle.eq(burst_timer.done)
tx_idle_comb(bc) == WaitTimerDone(bc)

\* pattern forced low while idle is asserted
tx_pattern_gated(c, idl) == [i \in 1..40 |-> IF idl = 1 THEN 0 ELSE c]

\* self.pattern.eq(Replicate(clk, 40)); idle does not enter the expression
tx_pattern_comb(c, idl) == [i \in 1..40 |-> c]

\* ------------------------------------------------------------------------
\* Bounds and input sets
\* ------------------------------------------------------------------------

\* sys_clk_freq of the receiver runs: 1.5, 2 and 3 MHz, i.e.
\* (burst_cycles, repeat_cycles) = (2, 16), (2, 20), (3, 31)
RxClkFreqs == {15, 20, 30}

\* (sys_clk_freq, lfps_clk_freq) arguments of LFPSTransmitter():
\* 2 MHz with lfps clocks in and out of range, 500/25 MHz, 50/10 MHz and
\* 100/30 MHz (the last two are not multiples of 2*lfps_clk_freq)
TxArgs == ({20} \X {50, 99, 100, 250, 500, 501, 600})
             \cup {<<5000, 250>>, <<500, 100>>, <<1000, 300>>}

\* (sys_clk_freq, lfps_clk_freq) of the loopback runs
LoopArgs == RxClkFreqs \X {100, 250}

\* sys_clk_freq of the conversion runs, 1.5 MHz .. 500 MHz
ConvClkFreqs == {15, 20, 30, 40, 50, 70, 100, 1000, 1250, 1330, 2500, 5000}

MaxCycles    == 3   \* cadence runs feed 1..MaxCycles cycles
TailPeriods  == 1   \* cadence runs are observed this many periods longer
MaxTxPeriods == 2   \* transmitter ticks are numbered over this many periods
MaxPeriods   == 4   \* loopback generator periods are numbered up to this
MaxRounds    == 2   \* TREPEAT visits counted while found stays latched

\* ------------------------------------------------------------------------
\* State
\* ------------------------------------------------------------------------

VARIABLES
    sys_clk_freq,     \* constructor argument (100 kHz units)
    lfps_clk_freq,    \* LFPSTransmitter constructor argument (100 kHz units)
    rx_regs,          \* LFPSReceiver: MultiReg registers <<first, second>>
    fsm_state,        \* LFPSReceiver.fsm state
    count,            \* LFPSReceiver.count
    found,            \* LFPSReceiver.found
    tx_inst,          \* LFPSTransmitter(): "new" | "built" | "AssertionError"
    clk,              \* LFPSTransmitter clk
    clk_timer,        \* clk_timer count register
    burst_timer,      \* burst_timer count register
    repeat_timer,     \* repeat_timer count register
    \* observers of a run (no effect on the registers above)
    ticks,            \* clock edges since reset (saturating)
    pulses,           \* ticks before the current one on which polling was 1
    last_polling,     \* polling on the previous tick
    high_run,         \* consecutive ticks, up to now, with idle = 1 (<= G)
    gap_seen,         \* idle was 1 for G consecutive ticks since the last pulse
    since_start,      \* ticks since the most recent burst start (<= R+1)
    start_gap,        \* ticks between the two most recent burst starts
    rx_exit,          \* how TREPEAT was last left: "none" | "early" | "full"
    clk_age,          \* ticks since clk last changed
    gap_toggle,       \* pattern changed between two ticks with tx idle = 1
    cycles,           \* cadence runs: number k of cycles fed
    tail,             \* cadence runs: level of idle after the k cycles
    period,           \* loopback runs: index of the generator period
    period_pulses,    \* loopback runs: polling ticks in this period so far
    timings,          \* LFPSTiming objects built so far, in source order
    conv,             \* ns_to_cycles results <<burst_cycles, repeat_cycles>>
    \* further observers of the receiver
    raw_hist,         \* raw idle input on the two previous ticks, latest first
    raw_seen,         \* levels the raw idle input has had on previous ticks
    last_idle,        \* synchronized idle on the previous tick
    low_len,          \* length so far of the current run of idle = 0 (<= B+1)
    prev_low,         \* length of the last completed run of idle = 0
    armed_low,        \* prev_low when TREPEAT last ran its count down to 0
    burst_stay,       \* ticks spent in TBURST since its last reload, mod B
    armed_stay,       \* TBURST ticks mod B when TREPEAT was last entered
    stay,             \* ticks spent so far in the current TREPEAT visit
    high_in_burst,    \* consecutive TBURST ticks, up to now, with idle = 1
    latch_rounds      \* TREPEAT visits completed while found was already 1

rx_vars  == <<rx_regs, fsm_state, count, found>>
tx_vars  == <<tx_inst, clk, clk_timer, burst_timer, repeat_timer>>
rx_obs   == <<last_polling, high_run, gap_seen, since_start, start_gap, rx_exit>>
tx_obs   == <<clk_age, gap_toggle>>
cad_obs  == <<cycles, tail>>
loop_obs == <<period, period_pulses>>
tbl_vars == <<timings, conv>>
det_obs  == <<raw_hist, raw_seen, last_idle, low_len, prev_low, armed_low,
              burst_stay, armed_stay, stay, high_in_burst, latch_rounds>>

vars == <<sys_clk_freq, lfps_clk_freq, rx_vars, tx_vars, ticks, pulses,
          rx_obs, tx_obs, cad_obs, loop_obs, tbl_vars,
                   det_obs>>

\* combinatorial signals of the current cycle
idle    == MultiRegOut(rx_regs)
polling == IF fsm_state = "TBURST" THEN TBURST_polling(found, idle) ELSE 0

tx_idle    == tx_idle_comb(burst_timer)
tx_pattern == tx_pattern_comb(clk, tx_idle)

B == burst_cycles(sys_clk_freq)
R == repeat_cycles(sys_clk_freq)
G == R - B

\* ------------------------------------------------------------------------
\* Reset state
\* ------------------------------------------------------------------------

RxReset ==
    /\ rx_regs = <<0, 0>>
    /\ fsm_state = "TBURST"
    /\ count = 0
    /\ found = 0

TxNew ==
    /\ tx_inst = "new"
    /\ clk = 0
    /\ clk_timer = 0
    /\ burst_timer = 0
    /\ repeat_timer = 0

\* at reset the synchronized idle is 0: a run of low of length 1, and the
\* count of 0 stands at the end of a TBURST window
DetObsReset ==
    /\ raw_hist = <<0, 0>>
    /\ raw_seen = {}
    /\ last_idle = 0
    /\ low_len = 1
    /\ prev_low = 0
    /\ armed_low = 0
    /\ burst_stay = B - 1
    /\ armed_stay = 0
    /\ stay = 0
    /\ high_in_burst = 0
    /\ latch_rounds = 0

ObsReset ==
    /\ DetObsReset
    /\ ticks = 0
    /\ pulses = 0
    /\ last_polling = 0
    /\ high_run = 0
    /\ gap_seen = FALSE
    /\ since_start = 0
    /\ start_gap = 0
    /\ rx_exit = "none"
    /\ clk_age = 0
    /\ gap_toggle = FALSE
    /\ period = 0
    /\ period_pulses = 0
    /\ timings = LFPSDefinitions
    /\ conv = <<>>

\* ------------------------------------------------------------------------
\* One sys clock edge of LFPSReceiver with the raw idle input at level raw
\* ------------------------------------------------------------------------

RxClock(raw) ==
    /\ rx_regs' = MultiRegNext(rx_regs, raw)
    /\ fsm_state' = IF fsm_state = "TBURST"
                    THEN TBURST_state(count, idle)
                    ELSE TREPEAT_state(count, idle)
    /\ count' = IF fsm_state = "TBURST"
                THEN TBURST_count(sys_clk_freq, count, idle)
                ELSE TREPEAT_count(sys_clk_freq, count, idle)
    /\ found' = IF fsm_state = "TBURST"
                THEN TBURST_found(found, idle)
                ELSE TREPEAT_found(found, count, idle)

\* what the observers record on a receiver clock edge
RxObserve ==
    /\ last_polling' = polling
    /\ high_run' = IF MultiRegOut(rx_regs') = 1 THEN Min2(high_run + 1, G) ELSE 0
    /\ gap_seen' = IF polling = 1 THEN FALSE ELSE (gap_seen \/ high_run >= G)
    /\ since_start' = IF idle = 1 /\ MultiRegOut(rx_regs') = 0
                      THEN 0 ELSE Min2(since_start + 1, R + 1)
    /\ start_gap' = IF idle = 1 /\ MultiRegOut(rx_regs') = 0
                    THEN Min2(since_start + 1, R + 1) ELSE start_gap
    /\ rx_exit' = IF fsm_state = "TREPEAT" /\ TREPEAT_exit(count, idle)
                  THEN (IF count = 0 THEN "full" ELSE "early")
                  ELSE rx_exit

\* ------------------------------------------------------------------------
\* Receiver driven by an arbitrary raw idle input
\* ------------------------------------------------------------------------

InitRx ==
    /\ sys_clk_freq \in RxClkFreqs
    /\ lfps_clk_freq = 0
    /\ RxReset /\ TxNew /\ ObsReset
    /\ cycles = 0 /\ tail = 0

RxTick ==
    /\ \E raw \in {0, 1} : RxClock(raw)
    /\ RxObserve
    /\ UNCHANGED <<sys_clk_freq, lfps_clk_freq, tx_vars, ticks, pulses,
                   tx_obs, cad_obs, loop_obs, tbl_vars,
                   det_obs>>

NextRx == RxTick

SpecRx == InitRx /\ [][NextRx]_vars

\* ------------------------------------------------------------------------
\* Receiver fed the Polling LFPS cadence: from reset the synchronized idle
\* is low for burst_cycles ticks and high for the rest of repeat_cycles
\* ticks, for `cycles` cycles, and then rests at the level `tail`
\* ------------------------------------------------------------------------

Cadence(t) == IF t < cycles * R
              THEN (IF t % R < B THEN 0 ELSE 1)
              ELSE tail

InitCadence ==
    /\ sys_clk_freq \in RxClkFreqs
    /\ lfps_clk_freq = 0
    /\ RxReset /\ TxNew /\ ObsReset
    /\ cycles \in 1..MaxCycles
    /\ tail \in {0, 1}

\* the raw input leads the synchronized idle by the two MultiReg stages
CadenceTick ==
    /\ ticks < (cycles + TailPeriods) * R
    /\ RxClock(Cadence(ticks + 2))
    /\ ticks' = ticks + 1
    /\ pulses' = pulses + polling
    /\ UNCHANGED <<sys_clk_freq, lfps_clk_freq, tx_vars, rx_obs, tx_obs,
                   cad_obs, loop_obs, tbl_vars,
                   det_obs>>

NextCadence == CadenceTick

SpecCadence == InitCadence /\ [][NextCadence]_vars

\* ------------------------------------------------------------------------
\* LFPSTransmitter: construction and one sys clock edge
\* ------------------------------------------------------------------------

\* registers of a freshly built LFPSTransmitter (WaitTimer counts at reset)
TxReset ==
    /\ tx_inst = "built"
    /\ clk = 0
    /\ clk_timer = clk_timer_t(sys_clk_freq, lfps_clk_freq)
    /\ burst_timer = B
    /\ repeat_timer = R

TxClock ==
    /\ tx_inst = "built"
    /\ tx_inst' = tx_inst
    /\ clk_timer' = WaitTimerNext(clk_timer_t(sys_clk_freq, lfps_clk_freq),
                                  clk_timer, 1 - WaitTimerDone(clk_timer))
    /\ clk' = clk_next(clk, WaitTimerDone(clk_timer))
    /\ burst_timer' = WaitTimerNext(B, burst_timer,
                                    1 - WaitTimerDone(repeat_timer))
    /\ repeat_timer' = WaitTimerNext(R, repeat_timer,
                                     1 - WaitTimerDone(repeat_timer))

TxObserve ==
    /\ clk_age' = IF clk' # clk THEN 0
                  ELSE Min2(clk_age + 1, clk_timer_t(sys_clk_freq, lfps_clk_freq) + 2)
    /\ gap_toggle' = (gap_toggle \/ (tx_idle = 1 /\ tx_idle' = 1
                                      /\ tx_pattern' # tx_pattern))

InitTx ==
    /\ \E args \in TxArgs : sys_clk_freq = args[1] /\ lfps_clk_freq = args[2]
    /\ RxReset /\ TxNew /\ ObsReset
    /\ cycles = 0 /\ tail = 0

\* LFPSTransmitter(sys_clk_freq, lfps_clk_freq): a failing assert raises
\* AssertionError out of __init__ and no instance exists
TxConstruct ==
    /\ tx_inst = "new"
    /\ IF lfps_clk_freq_ok(lfps_clk_freq)
       THEN /\ tx_inst' = "built"
            /\ clk' = 0
            /\ clk_timer' = clk_timer_t(sys_clk_freq, lfps_clk_freq)
            /\ burst_timer' = B
            /\ repeat_timer' = R
       ELSE /\ tx_inst' = "AssertionError"
            /\ UNCHANGED <<clk, clk_timer, burst_timer, repeat_timer>>
    /\ UNCHANGED <<sys_clk_freq, lfps_clk_freq, rx_vars, ticks, pulses,
                   rx_obs, tx_obs, cad_obs, loop_obs, tbl_vars,
                   det_obs>>

TxTick ==
    /\ TxClock
    /\ TxObserve
    /\ ticks' = Min2(ticks + 1, MaxTxPeriods * (R + 1))
    /\ UNCHANGED <<sys_clk_freq, lfps_clk_freq, rx_vars, pulses,
                   rx_obs, cad_obs, loop_obs, tbl_vars,
                   det_obs>>

NextTx == TxConstruct \/ TxTick

SpecTx == InitTx /\ [][NextTx]_vars

\* ------------------------------------------------------------------------
\* Loopback: the transmitter's idle output drives the receiver's raw idle
\* input, both built for the same sys_clk_freq and clocked together
\* ------------------------------------------------------------------------

InitLoop ==
    /\ \E args \in LoopArgs : sys_clk_freq = args[1] /\ lfps_clk_freq = args[2]
    /\ RxReset /\ TxReset /\ ObsReset
    /\ cycles = 0 /\ tail = 0

LoopTick ==
    /\ TxClock
    /\ RxClock(tx_idle)
    /\ ticks' = Min2(ticks + 1, MaxPeriods * (R + 1))
    /\ period' = IF WaitTimerDone(repeat_timer) = 1
                 THEN Min2(period + 1, MaxPeriods) ELSE period
    /\ period_pulses' = IF WaitTimerDone(repeat_timer) = 1
                        THEN 0 ELSE Min2(period_pulses + polling, 2)
    /\ UNCHANGED <<sys_clk_freq, lfps_clk_freq, pulses, rx_obs, tx_obs, cad_obs,
                   tbl_vars, det_obs>>

NextLoop == LoopTick

SpecLoop == InitLoop /\ [][NextLoop]_vars

\* ------------------------------------------------------------------------
\* Module load and duration conversion: the LFPSTiming objects are built in
\* source order, then burst_cycles and repeat_cycles are computed for a
\* sys_clk_freq as LFPSReceiver/LFPSTransmitter.__init__ do
\* ------------------------------------------------------------------------

InitTiming ==
    /\ sys_clk_freq \in ConvClkFreqs
    /\ lfps_clk_freq = 0
    /\ RxReset /\ TxNew
    /\ ticks = 0 /\ pulses = 0
    /\ last_polling = 0 /\ high_run = 0 /\ gap_seen = FALSE
    /\ since_start = 0 /\ start_gap = 0 /\ rx_exit = "none"
    /\ clk_age = 0 /\ gap_toggle = FALSE
    /\ cycles = 0 /\ tail = 0
    /\ period = 0 /\ period_pulses = 0
    /\ timings = <<>>
    /\ conv = <<>>
    /\ DetObsReset

\* the next  XxxLFPSBurst/Repeat = LFPSTiming(...)  statement
LoadTiming ==
    /\ Len(timings) < Len(LFPSDefinitions)
    /\ LFPSTiming_ok(LFPSDefinitions[Len(timings) + 1])
    /\ timings' = Append(timings, LFPSDefinitions[Len(timings) + 1])
    /\ UNCHANGED <<sys_clk_freq, lfps_clk_freq, rx_vars, tx_vars, ticks,
                   pulses, rx_obs, tx_obs, cad_obs, loop_obs, conv, det_obs>>

\* ns_to_cycles(sys_clk_freq, PollingLFPS.burst.t_typ), then
\* ns_to_cycles(sys_clk_freq, PollingLFPS.repeat.t_typ)
Convert ==
    /\ Len(timings) = Len(LFPSDefinitions)
    /\ Len(conv) < 2
    /\ conv' = Append(conv, ns_to_cycles(sys_clk_freq,
                               IF Len(conv) = 0 THEN PollingLFPS.burst.t_typ
                                                ELSE PollingLFPS.repeat.t_typ))
    /\ UNCHANGED <<sys_clk_freq, lfps_clk_freq, rx_vars, tx_vars, ticks,
                   pulses, rx_obs, tx_obs, cad_obs, loop_obs, timings,
                   det_obs>>

NextTiming == LoadTiming \/ Convert

SpecTiming == InitTiming /\ [][NextTiming]_vars

\* ------------------------------------------------------------------------
\* Resynchronisation observed: the receiver with an arbitrary raw input,
\* recording the raw levels of the previous ticks
\* ------------------------------------------------------------------------

InitSync ==
    /\ sys_clk_freq \in RxClkFreqs
    /\ lfps_clk_freq = 0
    /\ RxReset /\ TxNew /\ ObsReset
    /\ cycles = 0 /\ tail = 0

SyncTick ==
    /\ \E raw \in {0, 1} :
          /\ RxClock(raw)
          /\ raw_hist' = <<raw, raw_hist[1]>>
          /\ raw_seen' = raw_seen \cup {raw}
    /\ last_idle' = idle
    /\ ticks' = Min2(ticks + 1, Len(rx_regs))
    /\ UNCHANGED <<sys_clk_freq, lfps_clk_freq, tx_vars, pulses, rx_obs,
                   tx_obs, cad_obs, loop_obs, tbl_vars, low_len, prev_low,
                   armed_low, burst_stay, armed_stay, stay, high_in_burst,
                   latch_rounds>>

NextSync == SyncTick

SpecSync == InitSync /\ [][NextSync]_vars

\* ------------------------------------------------------------------------
\* Detector observed: the receiver with an arbitrary raw input, recording
\* the runs of low idle, the TBURST stays and the rounds of a latched found
\* ------------------------------------------------------------------------

DetObserve ==
    /\ last_idle' = idle
    /\ low_len' = IF MultiRegOut(rx_regs') = 0
                  THEN Min2((IF idle = 0 THEN low_len ELSE 0) + 1, B + 1)
                  ELSE 0
    /\ prev_low' = IF idle = 0 /\ MultiRegOut(rx_regs') = 1
                   THEN low_len ELSE prev_low
    /\ armed_low' = IF fsm_state = "TREPEAT" /\ count = 0
                    THEN prev_low ELSE armed_low
    /\ burst_stay' = IF fsm_state' = "TBURST"
                     THEN (IF fsm_state = "TBURST"
                           THEN (burst_stay + 1) % B ELSE 0)
                     ELSE burst_stay
    /\ armed_stay' = IF fsm_state = "TBURST" /\ fsm_state' = "TREPEAT"
                     THEN (burst_stay + 1) % B ELSE armed_stay
    /\ latch_rounds' = IF fsm_state = "TREPEAT" /\ count = 0
                       THEN (IF found = 1
                             THEN Min2(latch_rounds + 1, MaxRounds) ELSE 0)
                       ELSE (IF found' = 0 THEN 0 ELSE latch_rounds)

InitDet ==
    /\ sys_clk_freq \in RxClkFreqs
    /\ lfps_clk_freq = 0
    /\ RxReset /\ TxNew /\ ObsReset
    /\ cycles = 0 /\ tail = 0

DetTick ==
    /\ \E raw \in {0, 1} : RxClock(raw)
    /\ DetObserve
    /\ UNCHANGED <<sys_clk_freq, lfps_clk_freq, tx_vars, ticks, pulses,
                   rx_obs, tx_obs, cad_obs, loop_obs, tbl_vars, raw_hist,
                   raw_seen, stay, high_in_burst>>

NextDet == DetTick

SpecDet == InitDet /\ [][NextDet]_vars

\* ------------------------------------------------------------------------
\* Detector progress observed; the sys clock never stops, so the tick is
\* taken again and again
\* ------------------------------------------------------------------------

InitProgress ==
    /\ sys_clk_freq \in RxClkFreqs
    /\ lfps_clk_freq = 0
    /\ RxReset /\ TxNew /\ ObsReset
    /\ cycles = 0 /\ tail = 0

ProgressTick ==
    /\ \E raw \in {0, 1} : RxClock(raw)
    /\ stay' = IF fsm_state' = "TREPEAT" THEN Min2(stay + 1, G + 1) ELSE 0
    /\ high_in_burst' = IF fsm_state' = "TBURST" /\ MultiRegOut(rx_regs') = 1
                        THEN Min2(high_in_burst + 1, B + 1) ELSE 0
    /\ UNCHANGED <<sys_clk_freq, lfps_clk_freq, tx_vars, ticks, pulses,
                   rx_obs, tx_obs, cad_obs, loop_obs, tbl_vars, raw_hist,
                   raw_seen, last_idle, low_len, prev_low, armed_low,
                   burst_stay, armed_stay, latch_rounds>>

NextProgress == ProgressTick

SpecProgress == InitProgress /\ [][NextProgress]_vars /\ WF_vars(ProgressTick)

\* ------------------------------------------------------------------------
\* Receiver claims (SpecRx)
\* ------------------------------------------------------------------------

\* C4: when the detector is in TREPEAT and the synchronized idle goes low
\* while count is non-zero, polling is not asserted on that tick, the next
\* state is TBURST with found = 0, and polling stays deasserted until a
\* later TREPEAT has run its counter down to zero.
C4_EarlyReburst ==
    [][ /\ (fsm_state = "TREPEAT" /\ idle = 0 /\ count # 0)
            => (polling = 0 /\ fsm_state' = "TBURST" /\ found' = 0)
        /\ (rx_exit' = "early" => polling' = 0) ]_vars

\* an early re-burst has been taken and the detector is back in TBURST
C4_Witness == rx_exit = "early" /\ fsm_state = "TBURST" /\ idle = 0

\* C5 as stated: polling is asserted only if the two most recent burst
\* starts of the synchronized idle are exactly repeat_cycles ticks apart.
C5_ExactPeriod == polling = 1 => start_gap = R

\* C5 amended: polling is asserted only if, since the previous pulse (or
\* reset), the synchronized idle has been high on at least
\* repeat_cycles - burst_cycles consecutive ticks; the distance between
\* burst starts is not otherwise measured.
C5_FullGapBeforePulse == polling = 1 => gap_seen

\* a pulse on a burst whose start is not repeat_cycles after the previous one
C5_Witness == polling = 1 /\ gap_seen /\ start_gap # R

\* C6: polling is never asserted on two consecutive ticks.
C6_OneTickPulse == ~(last_polling = 1 /\ polling = 1)

\* the tick after a pulse
C6_Witness == last_polling = 1 /\ polling = 0 /\ idle = 0

\* ------------------------------------------------------------------------
\* Cadence claim (SpecCadence)
\* ------------------------------------------------------------------------

\* number of ticks t' < t of the form j*R + 1 with 1 <= j <= n
PulseTicksBefore(t, n) == Cardinality({j \in 1..n : j * R + 1 < t})

C2_PulsePerPeriod ==
    (period >= 2) =>
        /\ period_pulses + polling <= 1
        /\ WaitTimerDone(repeat_timer) = 1 => period_pulses + polling = 1

\* ------------------------------------------------------------------------
\* Transmitter claims (SpecTx)
\* ------------------------------------------------------------------------

TxRunning == tx_inst = "built" /\ tx_inst' = "built"

\* C3: counting ticks from reset, idle is low on ticks [0, burst_cycles) and
\* high on [burst_cycles, repeat_cycles) of every period of repeat_cycles
\* ticks.
C3_Cadence ==
    (tx_inst = "built" /\ ticks < MaxTxPeriods * (R + 1)) =>
        tx_idle = (IF ticks % R < B THEN 0 ELSE 1)

\* C7 as stated: pattern does not toggle while idle is asserted.
C7_GatedPattern ==
    [][(TxRunning /\ tx_idle = 1 /\ tx_idle' = 1) => tx_pattern' = tx_pattern]_vars

\* C7 amended: pattern carries the oscillator bit on all 40 lines on every
\* tick, whether idle is asserted or not, and changes exactly when the
\* clk_timer is done, in the repeat gap as in the burst.
C7_UngatedPattern ==
    [][TxRunning =>
         /\ \A i \in 1..40 : tx_pattern[i] = clk
         /\ (tx_pattern' # tx_pattern) <=> (WaitTimerDone(clk_timer) = 1)
         /\ (tx_idle = 1 /\ tx_idle' = 1 /\ WaitTimerDone(clk_timer) = 1)
               => tx_pattern' # tx_pattern ]_vars

\* pattern has toggled between two ticks of the repeat gap
C7_Witness == tx_inst = "built" /\ gap_toggle /\ tx_idle = 1

\* C8 as stated: clk toggles once every floor(sys_clk_freq/(2*lfps_clk_freq))
\* ticks (taken where that number is at least 1).
C8_FloorRate ==
    [][(TxRunning /\ sys_clk_freq >= 2 * lfps_clk_freq) =>
         ((clk' # clk) <=>
            (clk_age = (sys_clk_freq \div (2 * lfps_clk_freq)) - 1))]_vars

\* C8 amended: clk toggles once every ceil(sys_clk_freq/(2*lfps_clk_freq))
\* ticks, from reset onward.
C8_CeilRate ==
    [][TxRunning =>
         ((clk' # clk) <=>
            (clk_age = CeilDiv(sys_clk_freq, 2 * lfps_clk_freq) - 1))]_vars

\* clk has toggled where sys_clk_freq is no multiple of 2*lfps_clk_freq
C8_Witness ==
    /\ tx_inst = "built"
    /\ sys_clk_freq % (2 * lfps_clk_freq) # 0
    /\ sys_clk_freq > 2 * lfps_clk_freq
    /\ clk = 1 /\ clk_age = 0

\* C9: at 500 MHz with a 25 MHz lfps clock, clk and every bit of pattern
\* flip exactly every 10 ticks, from reset onward.
C9_TenTicks ==
    [][(TxRunning /\ sys_clk_freq = 5000 /\ lfps_clk_freq = 250) =>
         /\ (clk' # clk) <=> (clk_age = 9)
         /\ \A i \in 1..40 :
               (tx_pattern'[i] # tx_pattern[i]) <=> (clk_age = 9) ]_vars

\* second toggle at 500/25 MHz: clk is back to 0
C9_Witness ==
    /\ tx_inst = "built" /\ sys_clk_freq = 5000 /\ lfps_clk_freq = 250
    /\ ticks = 20 /\ clk = 0 /\ clk_age = 0

\* C10: LFPSTransmitter() is built if and only if lfps_clk_freq lies in
\* [10 MHz, 50 MHz]; otherwise construction fails and no instance runs.
C10_Construction ==
    /\ tx_inst = "built" => (lfps_clk_freq >= 100 /\ lfps_clk_freq <= 500)
    /\ tx_inst = "AssertionError" =>
          /\ (lfps_clk_freq < 100 \/ lfps_clk_freq > 500)
          /\ ticks = 0 /\ clk_timer = 0 /\ burst_timer = 0 /\ repeat_timer = 0

\* 60 MHz has been rejected
C10_Witness == tx_inst = "AssertionError" /\ lfps_clk_freq = 600

\* ------------------------------------------------------------------------
\* Timing claims (SpecTiming)
\* ------------------------------------------------------------------------

\* C11: ns_to_cycles(R, d) equals ceil(d * R) and is at least 1 for d > 0;
\* at 100 MHz the Polling typical timings give burst_cycles = 100 and
\* repeat_cycles = 1000.
C11_Conversion ==
    /\ Len(conv) >= 1 =>
          /\ conv[1] = CeilDiv(PollingLFPS.burst.t_typ * sys_clk_freq, 1000)
          /\ conv[1] >= 1
    /\ Len(conv) = 2 =>
          /\ conv[2] = CeilDiv(PollingLFPS.repeat.t_typ * sys_clk_freq, 1000)
          /\ conv[2] >= 1
    /\ (Len(conv) = 2 /\ sys_clk_freq = 1000) => conv = <<100, 1000>>

\* C16: every LFPSTiming of the table has t_min <= t_max, and t_typ, when
\* present, lies in [t_min, t_max].
C16_WellFormed ==
    \A i \in 1..Len(timings) :
        /\ timings[i].t_min <= timings[i].t_max
        /\ timings[i].t_typ # None =>
              (timings[i].t_min <= timings[i].t_typ
                 /\ timings[i].t_typ <= timings[i].t_max)

\* ------------------------------------------------------------------------
\* Resynchronisation claim (SpecSync)
\* ------------------------------------------------------------------------

\* C12 as stated: at every tick the synchronized idle equals the raw idle of
\* two ticks earlier, and it never shows a level the raw input did not have
\* on some previous tick.
C12_NoInventedLevel ==
    /\ ticks >= 2 => idle = raw_hist[2]
    /\ ticks >= 1 => idle \in raw_seen

\* C12 amended: from tick 2 on the synchronized idle equals the raw idle of
\* two ticks earlier (so a raw pulse of any width passes unfiltered); on
\* ticks 0 and 1 it is the reset level 0 of the registers, whatever the raw
\* input is.
C12_TwoTickDelay ==
    /\ ticks >= 2 => (idle = raw_hist[2] /\ idle \in raw_seen)
    /\ ticks < 2 => idle = 0
    /\ ticks >= 1 => rx_regs[1] = raw_hist[1]

\* a raw pulse of one tick has come through: idle is 1 between two ticks of 0
C12_Witness ==
    ticks >= 2 /\ last_idle = 0 /\ idle = 1 /\ rx_regs[1] = 0
        /\ raw_hist = <<0, 1>>

\* ------------------------------------------------------------------------
\* Detector claims (SpecDet)
\* ------------------------------------------------------------------------

\* C13 as stated: every polling pulse is on a tick where the synchronized
\* idle is low and was high on the tick before.
C13_PulseOnBurstStart == polling = 1 => (idle = 0 /\ last_idle = 1)

\* C13 amended: every polling pulse is on the first or the second tick of a
\* burst: idle is low and was high on one of the two ticks before; it is on
\* the second tick exactly when TREPEAT ran its count down to 0 on the first
\* tick of the burst, as it does in the exact cadence.
C13_FirstOrSecondTick ==
    [][polling' = 1 =>
         /\ idle' = 0
         /\ (idle = 1 \/ last_idle = 1)
         /\ (idle = 0) <=> (fsm_state = "TREPEAT" /\ count = 0 /\ idle = 0) ]_vars

\* a pulse on the second tick of a burst
C13_Witness == polling = 1 /\ last_idle = 0 /\ idle = 0

\* C14 as stated: polling is asserted only if the run of low idle before the
\* arming gap lasted exactly burst_cycles ticks.
C14_ExactBurst == polling = 1 => armed_low = B

\* C14 amended: the length of the burst is not measured; TBURST samples idle
\* every burst_cycles ticks, so polling is asserted only after a TBURST stay
\* of a whole number of burst_cycles ticks (the reset tick apart) that ended
\* on a sample of idle = 1.
C14_SampledBurst == polling = 1 => armed_stay = 0

\* a pulse armed after a run of low idle that was not burst_cycles long
C14_Witness == polling = 1 /\ armed_low # B /\ armed_stay = 0

\* C19: a latched found is cleared only by a TBURST tick with idle low, which
\* pulses polling, or overwritten with (count == 0) when TREPEAT is left; it
\* stays set while idle stays high, over any number of TBURST/TREPEAT rounds.
C19_LatchPersists ==
    [][ /\ (found = 1 /\ found' = 0) =>
              \/ (fsm_state = "TBURST" /\ idle = 0 /\ polling = 1)
              \/ (fsm_state = "TREPEAT" /\ idle = 0 /\ count # 0)
        /\ (fsm_state = "TREPEAT" /\ (count = 0 \/ idle = 0)) =>
              found' = (IF count = 0 THEN 1 ELSE 0)
        /\ (found = 1 /\ idle = 1) => found' = 1 ]_vars

\* a pulse after found stayed latched over MaxRounds further TREPEAT visits
C19_Witness == polling = 1 /\ latch_rounds >= MaxRounds

\* ------------------------------------------------------------------------
\* Progress claim (SpecProgress)
\* ------------------------------------------------------------------------

\* C18: a visit to TREPEAT lasts at most repeat_cycles - burst_cycles ticks,
\* TBURST is left within burst_cycles ticks of idle held high, and TBURST is
\* entered again and again.
C18_Progress ==
    /\ [](stay <= G /\ high_in_burst <= B)
    /\ []<>(fsm_state = "TBURST")

\* the last tick of a TREPEAT visit of full length
C18_Witness == fsm_state = "TREPEAT" /\ stay = G /\ count = 0

\* ------------------------------------------------------------------------
\* Further receiver claims (SpecRx)
\* ------------------------------------------------------------------------

\* C15: polling is asserted exactly when the detector is in TBURST with
\* found latched and idle low; on the tick after a pulse found is 0; polling
\* is never asserted in TREPEAT.
C15_PollingCondition ==
    [][ /\ (polling = 1) <=> (fsm_state = "TBURST" /\ found = 1 /\ idle = 0)
        /\ polling = 1 => found' = 0
        /\ fsm_state = "TREPEAT" => polling = 0 ]_vars

\* the tick after a pulse, found cleared
C15_Witness == last_polling = 1 /\ found = 0 /\ fsm_state = "TBURST"

\* C17: count stays within 0 .. max(burst_cycles, repeat_cycles) - 1, at
\* most burst_cycles - 1 in TBURST and repeat_cycles - burst_cycles - 1 in
\* TREPEAT, and is never decremented below 0.
C17_CountRange ==
    [][ /\ count >= 0 /\ count <= Max2(B, R) - 1
        /\ fsm_state = "TBURST" => count <= B - 1
        /\ fsm_state = "TREPEAT" => count <= G - 1
        /\ fsm_state' = "TBURST" => count' <= B - 1
        /\ fsm_state' = "TREPEAT" => count' <= G - 1
        /\ \/ (count > 0 /\ count' = count - 1)
           \/ (fsm_state' = "TBURST" /\ count' = B - 1)
           \/ (fsm_state' = "TREPEAT" /\ count' = G - 1) ]_vars

\* TREPEAT entered with its largest count after a full round
C17_Witness == fsm_state = "TREPEAT" /\ count = G - 1 /\ rx_exit = "full"

=============================================================================
